---- MODULE Spec2Model ----
(***************************************************************************)
(* A model of the Vienna Type List Library (src/VTLL.h).                   *)
(*                                                                         *)
(* The library is a set of compile-time algorithms over type lists.  An    *)
(* instantiation either resolves to a type / value or ends in a            *)
(* resolution failure (a hard compile error).  The state machine below     *)
(* holds the template arguments of one instantiation (args), the           *)
(* instantiation that was made (pc) and what it resolved to (result).      *)
(*                                                                         *)
(* The header's embedded static_asserts are taken to hold, i.e. the build  *)
(* is one that accepts the header (Nth_type_impl's `int N` partial         *)
(* specialization is matched for a size_t argument).                       *)
(***************************************************************************)
EXTENDS Integers, Sequences, FiniteSets, TLC

VARIABLES args, compiler, pc, result

vars == <<args, compiler, pc, result>>

(***************************************************************************)
(* Bounds of the model.                                                    *)
(***************************************************************************)
\* longest type list given as the (first) list argument
MaxLen == 4
\* longest second list given to cat
MaxLen2 == 2
\* longest list / argument pack given to is_same
MaxArgs == 2
\* most (key, value) pairs of a map
MaxMap == 3
\* longest list of keys given to apply_map
MaxKeys == 2
\* longest list of lists given to a filter
MaxOuter == 2
\* longest inner list and longest criterion list given to a filter
MaxInner == 2
\* longest value list
MaxValues == 3
\* largest End - Begin of the short static_for loops
MaxSpan == 3

(***************************************************************************)
(* std::size_t: an unsigned 64-bit integer, kept as four 16-bit limbs,     *)
(* least significant first, so that arithmetic is exactly modulo 2^64.     *)
(***************************************************************************)
LimbBase == 2 ^ 16

\* a small natural number as a size_t
ToSizeT(n) == <<n, 0, 0, 0>>

\* std::numeric_limits<size_t>::max()
size_t_max == <<LimbBase - 1, LimbBase - 1, LimbBase - 1, LimbBase - 1>>

RECURSIVE IncFrom(_, _)
IncFrom(x, i) ==
    IF i > Len(x) THEN x
    ELSE IF x[i] < LimbBase - 1 THEN [x EXCEPT ![i] = x[i] + 1]
    ELSE IncFrom([x EXCEPT ![i] = 0], i + 1)

\* 1 + x in size_t arithmetic (wraps modulo 2^64)
AddOne(x) == IncFrom(x, 1)

RECURSIVE DecFrom(_, _)
DecFrom(x, i) ==
    IF i > Len(x) THEN x
    ELSE IF x[i] > 0 THEN [x EXCEPT ![i] = x[i] - 1]
    ELSE DecFrom([x EXCEPT ![i] = LimbBase - 1], i + 1)

\* x - 1 in size_t arithmetic (wraps modulo 2^64)
SubOne(x) == DecFrom(x, 1)

\* x is a size_t below the small natural number n
BelowNat(x, n) == x[2] = 0 /\ x[3] = 0 /\ x[4] = 0 /\ x[1] < n

(***************************************************************************)
(* Type tokens and type lists.                                             *)
(*                                                                         *)
(* A type token is a record [n, q]: a named type n in one of the forms     *)
(* q: T, const T, T&, T[k], T*.  A type list is a record                   *)
(* [tag, ts]: the list template (type_list or detail::type_list2) and the  *)
(* element pack.                                                           *)
(***************************************************************************)
TypeNames == {"double", "int", "char"}

Forms == {"plain", "const", "ref", "array", "pointer"}

PlainTypes == [n : TypeNames, q : {"plain"}]

\* int in every form, and char
QualifiedTypes == [n : {"int"}, q : Forms] \cup [n : {"char"}, q : {"plain"}]

Tags == {"type_list", "type_list2"}

\* Seq<Ts...>
MkSeq(tag, ts) == [tag |-> tag, ts |-> ts]

SeqsUpTo(S, k) == UNION {[1 .. m -> S] : m \in 0 .. k}

TypeLists(S, k) == [tag : Tags, ts : SeqsUpTo(S, k)]

(***************************************************************************)
(* Outcome of an instantiation: a resolved entity or a resolution failure. *)
(***************************************************************************)
Resolved(v) == [ok |-> TRUE, v |-> v]

Failure == [ok |-> FALSE, v |-> <<>>]

(***************************************************************************)
(* How the build orders the partial specializations cat_impl<Seq1<>,       *)
(* Seq2<Ts...>> and cat_impl<Seq1<Ts1...>, Seq2<T, Ts2...>> when both      *)
(* match: it either reports an ambiguous instantiation or takes the        *)
(* second as the more specialized one.                                     *)
(***************************************************************************)
Compilers == {"ambiguous", "ordered"}

(***************************************************************************)
(* size: size of a type list                                               *)
(***************************************************************************)
size_impl(List) == ToSizeT(Len(List.ts))

size(List) == Resolved(size_impl(List))

(***************************************************************************)
(* Nth_type: the Nth element of a type list, through std::tuple_element,   *)
(* which does not resolve for an index that is not below the size.         *)
(***************************************************************************)
\* a variant that yields the last element for an index past the end
Nth_type_impl_default(List, N) ==
    IF BelowNat(N, Len(List.ts)) THEN Resolved(List.ts[N[1] + 1])
    ELSE IF List.ts # <<>> THEN Resolved(List.ts[Len(List.ts)])
    ELSE Failure

Nth_type_impl(List, N) ==
    IF BelowNat(N, Len(List.ts)) THEN Resolved(List.ts[N[1] + 1]) ELSE Failure

Nth_type(List, N) == Nth_type_impl(List, N)

\* front: first element of a type list
front(List) == Nth_type(List, ToSizeT(0))

\* back: last element of a type list, at index size<List>::value - 1
back(List) == Nth_type(List, SubOne(size_impl(List)))

(***************************************************************************)
(* index_of: index of the first occurrence of a type within a type list    *)
(***************************************************************************)
\* a variant that goes on to the last occurrence
RECURSIVE index_of_impl_last(_, _)
index_of_impl_last(List, T) ==
    IF List.ts = <<>> THEN size_t_max
    ELSE IF Head(List.ts) = T /\ \A i \in 2 .. Len(List.ts) : List.ts[i] # T
         THEN ToSizeT(0)
    ELSE AddOne(index_of_impl_last(MkSeq(List.tag, Tail(List.ts)), T))

RECURSIVE index_of_impl(_, _)
index_of_impl(List, T) ==
    IF List.ts = <<>> THEN size_t_max
    ELSE IF Head(List.ts) = T THEN ToSizeT(0)
    ELSE AddOne(index_of_impl(MkSeq(List.tag, Tail(List.ts)), T))

index_of(List, T) == Resolved(index_of_impl(List, T))

(***************************************************************************)
(* cat: concatenate two type lists, the result is of the first list type.  *)
(* Three partial specializations:                                          *)
(*   1  <Seq1<>, Seq2<Ts...>>              matches an empty Seq1           *)
(*   2  <Seq1<Ts...>, Seq2<>>              matches an empty Seq2           *)
(*   3  <Seq1<Ts1...>, Seq2<T, Ts2...>>    matches a non-empty Seq2        *)
(* 1 and 2 both match two empty lists and neither is more specialized:     *)
(* the instantiation is ambiguous.  1 and 3 both match an empty Seq1 with  *)
(* a non-empty Seq2; what happens then depends on the build.               *)
(***************************************************************************)
RECURSIVE cat_impl(_, _)
cat_impl(Seq1, Seq2) ==
    IF Seq1.ts = <<>> /\ Seq2.ts = <<>> THEN Failure
    ELSE IF Seq2.ts = <<>> THEN Resolved(MkSeq(Seq1.tag, Seq1.ts))
    ELSE IF Seq1.ts = <<>> /\ compiler = "ambiguous" THEN Failure
    ELSE cat_impl(MkSeq(Seq1.tag, Append(Seq1.ts, Head(Seq2.ts))),
                  MkSeq(Seq2.tag, Tail(Seq2.ts)))

cat(Seq1, Seq2) == cat_impl(Seq1, Seq2)

(***************************************************************************)
(* is_same: test if a list contains the same types as the types of a       *)
(* variadic parameter pack.                                                *)
(*                                                                         *)
(* std::decay_t: remove the reference; then an array type becomes a        *)
(* pointer to its element type, any other type loses its top-level         *)
(* cv-qualifier.                                                           *)
(***************************************************************************)
\* a variant that leaves the type as it is
decay_t_identity(T) == T

decay_t(T) ==
    IF T.q = "array" THEN [T EXCEPT !.q = "pointer"]
    ELSE IF T.q \in {"const", "ref"} THEN [T EXCEPT !.q = "plain"]
    ELSE T

\* (std::is_same_v<std::decay_t<Ts>, std::decay_t<Args>> && ... && true):
\* the two packs are expanded in one pattern, which is ill-formed when their
\* lengths differ.
is_same_fold(Ts, Args) ==
    IF Len(Ts) # Len(Args) THEN Failure
    ELSE Resolved(\A i \in 1 .. Len(Ts) : decay_t(Ts[i]) = decay_t(Args[i]))

is_same_impl(List, Args) ==
    LET fold == is_same_fold(List.ts, Args)
    IN  IF ~fold.ok THEN Failure
        ELSE Resolved(Len(List.ts) = Len(Args) /\ fold.v)

is_same(List, Args) == is_same_impl(List, Args)

(***************************************************************************)
(* has_type: check whether a type list contains a type                     *)
(***************************************************************************)
has_type_impl(List, T) ==
    IF List.ts = <<>> THEN FALSE
    ELSE \E i \in 1 .. Len(List.ts) : T = List.ts[i]

has_type(List, T) == Resolved(has_type_impl(List, T))

(***************************************************************************)
(* erase_type: erase a type C from a type list.  type1 and type2 are both  *)
(* instantiated, std::conditional selects one of them.                     *)
(***************************************************************************)
\* a variant that stops at the first occurrence
RECURSIVE erase_type_impl_first_only(_, _)
erase_type_impl_first_only(List, C) ==
    IF List.ts = <<>> THEN Resolved(MkSeq(List.tag, <<>>))
    ELSE LET T == Head(List.ts)
             rest == erase_type_impl_first_only(MkSeq(List.tag, Tail(List.ts)), C)
             type1 == IF rest.ok THEN cat(MkSeq(List.tag, <<T>>), rest.v) ELSE Failure
             type2 == Resolved(MkSeq(List.tag, Tail(List.ts)))
         IN  IF ~type1.ok \/ ~type2.ok THEN Failure
             ELSE IF T # C THEN type1 ELSE type2

RECURSIVE erase_type_impl(_, _)
erase_type_impl(List, C) ==
    IF List.ts = <<>> THEN Resolved(MkSeq(List.tag, <<>>))
    ELSE LET T == Head(List.ts)
             rest == erase_type_impl(MkSeq(List.tag, Tail(List.ts)), C)
             type1 == IF rest.ok THEN cat(MkSeq(List.tag, <<T>>), rest.v) ELSE Failure
             type2 == rest
         IN  IF ~type1.ok \/ ~type2.ok THEN Failure
             ELSE IF T # C THEN type1 ELSE type2

erase_type(List, C) == erase_type_impl(List, C)

(***************************************************************************)
(* erase_Nth: erase the Nth element of a list.  No specialization matches  *)
(* an empty list.                                                          *)
(***************************************************************************)
\* a variant that erases the type found at N
erase_Nth_impl_by_type(List, N) ==
    LET nth == Nth_type(List, N)
    IN  IF ~nth.ok THEN Failure ELSE erase_type(List, nth.v)

RECURSIVE erase_Nth_impl(_, _)
erase_Nth_impl(List, N) ==
    IF List.ts = <<>> THEN Failure
    ELSE IF N = ToSizeT(0) THEN Resolved(MkSeq(List.tag, Tail(List.ts)))
    ELSE LET rest == erase_Nth_impl(MkSeq(List.tag, Tail(List.ts)), SubOne(N))
         IN  IF rest.ok THEN cat(MkSeq(List.tag, <<Head(List.ts)>>), rest.v)
             ELSE Failure

erase_Nth(List, N) == erase_Nth_impl(List, N)

(***************************************************************************)
(* transform: transform list<types> into list<Function<types>>             *)
(***************************************************************************)
\* Fun<T> for the alias templates given as Fun, named by their names
Fun_of(Fun, T) ==
    CASE Fun = "front" -> front(T)
      [] Fun = "back" -> back(T)

transform_impl(List, Fun) ==
    LET each == [i \in 1 .. Len(List.ts) |-> Fun_of(Fun, List.ts[i])]
    IN  IF \E i \in 1 .. Len(List.ts) : ~each[i].ok THEN Failure
        ELSE Resolved(MkSeq(List.tag, [i \in 1 .. Len(List.ts) |-> each[i].v]))

transform(List, Fun) == transform_impl(List, Fun)

(***************************************************************************)
(* map: find a type key in a map, i.e. a list of type key - type value     *)
(* pairs, and retrieve its type value, or a default type if not found.     *)
(* Both alternatives given to std::conditional are instantiated.           *)
(***************************************************************************)
\* a variant that takes the last pair with the key
map_impl_last_match(Map, Key, Default) ==
    LET Keys == transform(Map, "front")
    IN  IF ~Keys.ok THEN Failure
        ELSE LET at == {i \in 1 .. Len(Keys.v.ts) : Keys.v.ts[i] = Key}
                 last == IF at = {} THEN Len(Keys.v.ts)
                         ELSE CHOOSE i \in at : \A j \in at : j <= i
                 pair == Nth_type(Map, SubOne(ToSizeT(last)))
                 value == IF pair.ok THEN back(pair.v) ELSE Failure
             IN  IF ~value.ok THEN Failure
                 ELSE IF has_type_impl(Keys.v, Key) THEN value
                 ELSE Resolved(Default)

map_impl(Map, Key, Default) ==
    LET Keys == transform(Map, "front")
    IN  IF ~Keys.ok THEN Failure
        ELSE LET pair == Nth_type(Map, index_of_impl(Keys.v, Key))
                 value == IF pair.ok THEN back(pair.v) ELSE Failure
             IN  IF ~value.ok THEN Failure
                 ELSE IF has_type_impl(Keys.v, Key) THEN value
                 ELSE Resolved(Default)

map(Map, Key, Default) == map_impl(Map, Key, Default)

(***************************************************************************)
(* apply_map: apply a list of keys to a map, get the list of their values, *)
(* or defaults if the keys are not found.  The result is a vtll::type_list *)
(* whatever the list template of Keys is.                                  *)
(***************************************************************************)
apply_map_impl(Map, Keys, Default) ==
    LET each == [i \in 1 .. Len(Keys.ts) |-> map(Map, Keys.ts[i], Default)]
    IN  IF \E i \in 1 .. Len(Keys.ts) : ~each[i].ok THEN Failure
        ELSE Resolved(MkSeq("type_list",
                            [i \in 1 .. Len(Keys.ts) |-> each[i].v]))

apply_map(Map, Keys, Default) == apply_map_impl(Map, Keys, Default)

(***************************************************************************)
(* has_any_type: check whether a type list contains ANY type of a second   *)
(* type list                                                               *)
(***************************************************************************)
has_any_type_impl(Seq1, Seq2) ==
    \E i \in 1 .. Len(Seq2.ts) : has_type(Seq1, Seq2.ts[i]).v

has_any_type(Seq1, Seq2) == Resolved(has_any_type_impl(Seq1, Seq2))

(***************************************************************************)
(* has_all_types: check whether a type list contains ALL types of a second *)
(* type list                                                               *)
(***************************************************************************)
\* a variant that is content with one of them
has_all_types_impl_some(Seq1, Seq2) ==
    Seq2.ts = <<>> \/ \E i \in 1 .. Len(Seq2.ts) : has_type(Seq1, Seq2.ts[i]).v

has_all_types_impl(Seq1, Seq2) ==
    \A i \in 1 .. Len(Seq2.ts) : has_type(Seq1, Seq2.ts[i]).v

has_all_types(Seq1, Seq2) == Resolved(has_all_types_impl(Seq1, Seq2))

(***************************************************************************)
(* filter_have_type: keep only those type lists Ts<...> that have a        *)
(* specific type C as member.  type1 and type2 are both instantiated.      *)
(***************************************************************************)
\* a variant that puts the head behind the filtered tail
RECURSIVE filter_have_type_impl_behind(_, _)
filter_have_type_impl_behind(List, C) ==
    IF List.ts = <<>> THEN Resolved(MkSeq(List.tag, <<>>))
    ELSE LET T == Head(List.ts)
             rest == filter_have_type_impl_behind(MkSeq(List.tag, Tail(List.ts)), C)
             type1 == IF rest.ok
                      THEN Resolved(MkSeq(List.tag, Append(rest.v.ts, T)))
                      ELSE Failure
             type2 == rest
         IN  IF ~type1.ok \/ ~type2.ok THEN Failure
             ELSE IF has_type(T, C).v THEN type1 ELSE type2

RECURSIVE filter_have_type_impl(_, _)
filter_have_type_impl(List, C) ==
    IF List.ts = <<>> THEN Resolved(MkSeq(List.tag, <<>>))
    ELSE LET T == Head(List.ts)
             rest == filter_have_type_impl(MkSeq(List.tag, Tail(List.ts)), C)
             type1 == IF rest.ok THEN cat(MkSeq(List.tag, <<T>>), rest.v) ELSE Failure
             type2 == rest
         IN  IF ~type1.ok \/ ~type2.ok THEN Failure
             ELSE IF has_type(T, C).v THEN type1 ELSE type2

filter_have_type(List, C) == filter_have_type_impl(List, C)

(***************************************************************************)
(* filter_have_all_types: keep only those type lists Ts<...> that have ALL *)
(* specified types Cs from another list Seq2<Cs...> as member              *)
(***************************************************************************)
\* a variant that tests has_any_type
RECURSIVE filter_have_all_types_impl_any(_, _)
filter_have_all_types_impl_any(Seq1, Seq2) ==
    IF Seq1.ts = <<>> THEN Resolved(MkSeq(Seq1.tag, <<>>))
    ELSE LET T == Head(Seq1.ts)
             rest == filter_have_all_types_impl_any(MkSeq(Seq1.tag, Tail(Seq1.ts)), Seq2)
             type1 == IF rest.ok THEN cat(MkSeq(Seq1.tag, <<T>>), rest.v) ELSE Failure
             type2 == rest
         IN  IF ~type1.ok \/ ~type2.ok THEN Failure
             ELSE IF has_any_type(T, Seq2).v THEN type1 ELSE type2

RECURSIVE filter_have_all_types_impl(_, _)
filter_have_all_types_impl(Seq1, Seq2) ==
    IF Seq1.ts = <<>> THEN Resolved(MkSeq(Seq1.tag, <<>>))
    ELSE LET T == Head(Seq1.ts)
             rest == filter_have_all_types_impl(MkSeq(Seq1.tag, Tail(Seq1.ts)), Seq2)
             type1 == IF rest.ok THEN cat(MkSeq(Seq1.tag, <<T>>), rest.v) ELSE Failure
             type2 == rest
         IN  IF ~type1.ok \/ ~type2.ok THEN Failure
             ELSE IF has_all_types(T, Seq2).v THEN type1 ELSE type2

filter_have_all_types(Seq1, Seq2) == filter_have_all_types_impl(Seq1, Seq2)

(***************************************************************************)
(* filter_have_any_type: keep only those type lists Ts<...> that have ANY  *)
(* specified type Cs from another list Seq2<Cs...> as member               *)
(***************************************************************************)
\* a variant that tests has_all_types
RECURSIVE filter_have_any_type_impl_all(_, _)
filter_have_any_type_impl_all(Seq1, Seq2) ==
    IF Seq1.ts = <<>> THEN Resolved(MkSeq(Seq1.tag, <<>>))
    ELSE LET T == Head(Seq1.ts)
             rest == filter_have_any_type_impl_all(MkSeq(Seq1.tag, Tail(Seq1.ts)), Seq2)
             type1 == IF rest.ok THEN cat(MkSeq(Seq1.tag, <<T>>), rest.v) ELSE Failure
             type2 == rest
         IN  IF ~type1.ok \/ ~type2.ok THEN Failure
             ELSE IF has_all_types(T, Seq2).v THEN type1 ELSE type2

RECURSIVE filter_have_any_type_impl(_, _)
filter_have_any_type_impl(Seq1, Seq2) ==
    IF Seq1.ts = <<>> THEN Resolved(MkSeq(Seq1.tag, <<>>))
    ELSE LET T == Head(Seq1.ts)
             rest == filter_have_any_type_impl(MkSeq(Seq1.tag, Tail(Seq1.ts)), Seq2)
             type1 == IF rest.ok THEN cat(MkSeq(Seq1.tag, <<T>>), rest.v) ELSE Failure
             type2 == rest
         IN  IF ~type1.ok \/ ~type2.ok THEN Failure
             ELSE IF has_any_type(T, Seq2).v THEN type1 ELSE type2

filter_have_any_type(Seq1, Seq2) == filter_have_any_type_impl(Seq1, Seq2)

(***************************************************************************)
(* value lists: Seq<Is...> for any template <size_t...> typename Seq.      *)
(* value_list is the header's template, value_list2 stands for any other   *)
(* template of the same kind.  The values are size_t.                      *)
(***************************************************************************)
ValueTags == {"value_list", "value_list2"}

MkValues(tag, vs) == [tag |-> tag, vs |-> vs]

\* std::integral_constant<size_t, I>
integral_constant(I) == [T |-> "size_t", value |-> I]

(***************************************************************************)
(* type_to_value: turn a list of std::integral_constant<> into a value list*)
(***************************************************************************)
\* a variant that projects the values back to front
type_to_value_impl_reversed(List) ==
    Resolved(MkValues("value_list",
        [i \in 1 .. Len(List.ts) |-> List.ts[Len(List.ts) + 1 - i].value]))

type_to_value_impl(List) ==
    Resolved(MkValues("value_list",
        [i \in 1 .. Len(List.ts) |-> List.ts[i].value]))

type_to_value(List) == type_to_value_impl(List)

(***************************************************************************)
(* value_to_type: turn a value list into a list of std::integral_constant<>*)
(***************************************************************************)
value_to_type_impl(Values) ==
    Resolved(MkSeq("type_list",
        [i \in 1 .. Len(Values.vs) |-> integral_constant(Values.vs[i])]))

value_to_type(Values) == value_to_type_impl(Values)

(***************************************************************************)
(* static for: with this compile time for loop you can loop over any       *)
(* tuple, type list, or variadic argument list.  The index type T is       *)
(* modelled as signed char.                                                *)
(***************************************************************************)
T_min == -(2 ^ 7)
T_max == 2 ^ 7 - 1

\* a constant expression converts to T without narrowing
Representable(x) == T_min <= x /\ x <= T_max

\* std::make_integer_sequence<T, N> is integer_sequence<T, 0, ..., N - 1>,
\* ill-formed when N is negative
make_integer_sequence(N) ==
    IF N < 0 THEN Failure ELSE Resolved([k \in 1 .. N |-> k - 1])

\* a variant that forgets Begin
fold_operand_from_zero(Begin, Is, k) == Is[k]

\* the k-th operand of the fold: f(std::integral_constant<T, Begin + Is>{ })
fold_operand(Begin, Is, k) == Begin + Is[k]

(***************************************************************************)
(* Template arguments.                                                     *)
(***************************************************************************)
\* index arguments: every index up to one past the longest list, and the
\* largest size_t
Indices(k) == {ToSizeT(n) : n \in 0 .. k + 1} \cup {size_t_max}

\* (key, value) pairs
Pairs == [tag : {"type_list"}, ts : [1 .. 2 -> PlainTypes]]

NotInstantiated == Failure

(***************************************************************************)
(* Spec: instantiations over one type list List, a type T and an index N.  *)
(***************************************************************************)
Init ==
    /\ args \in [List : TypeLists(PlainTypes, MaxLen), T : PlainTypes,
                 N : Indices(MaxLen)]
    /\ compiler \in Compilers
    /\ pc = "start"
    /\ result = NotInstantiated

Inst_size ==
    /\ pc = "start"
    /\ result' = size(args.List)
    /\ pc' = "size"
    /\ UNCHANGED <<args, compiler>>

Inst_Nth_type ==
    /\ pc = "start"
    /\ result' = Nth_type(args.List, args.N)
    /\ pc' = "Nth_type"
    /\ UNCHANGED <<args, compiler>>

Inst_front ==
    /\ pc = "start"
    /\ result' = front(args.List)
    /\ pc' = "front"
    /\ UNCHANGED <<args, compiler>>

Inst_back ==
    /\ pc = "start"
    /\ result' = back(args.List)
    /\ pc' = "back"
    /\ UNCHANGED <<args, compiler>>

Inst_index_of ==
    /\ pc = "start"
    /\ result' = index_of(args.List, args.T)
    /\ pc' = "index_of"
    /\ UNCHANGED <<args, compiler>>

Inst_has_type ==
    /\ pc = "start"
    /\ result' = has_type(args.List, args.T)
    /\ pc' = "has_type"
    /\ UNCHANGED <<args, compiler>>

Inst_erase_type ==
    /\ pc = "start"
    /\ result' = erase_type(args.List, args.T)
    /\ pc' = "erase_type"
    /\ UNCHANGED <<args, compiler>>

Inst_erase_Nth ==
    /\ pc = "start"
    /\ result' = erase_Nth(args.List, args.N)
    /\ pc' = "erase_Nth"
    /\ UNCHANGED <<args, compiler>>

\* index_of< erase_type<List, T>, T >
Inst_index_of_erase_type ==
    /\ pc = "erase_type"
    /\ result.ok
    /\ result' = index_of(result.v, args.T)
    /\ pc' = "erase_type;index_of"
    /\ UNCHANGED <<args, compiler>>

\* has_type< erase_type<List, T>, T >
Inst_has_type_erase_type ==
    /\ pc = "erase_type"
    /\ result.ok
    /\ result' = has_type(result.v, args.T)
    /\ pc' = "erase_type;has_type"
    /\ UNCHANGED <<args, compiler>>

Next ==
    \/ Inst_size
    \/ Inst_Nth_type
    \/ Inst_front
    \/ Inst_back
    \/ Inst_index_of
    \/ Inst_has_type
    \/ Inst_erase_type
    \/ Inst_erase_Nth
    \/ Inst_index_of_erase_type
    \/ Inst_has_type_erase_type

Spec == Init /\ [][Next]_vars

(***************************************************************************)
(* SpecCat: cat over two type lists Seq1 and Seq2, and size and Nth_type   *)
(* of the concatenation.                                                   *)
(***************************************************************************)
InitCat ==
    /\ args \in [Seq1 : TypeLists(PlainTypes, MaxLen),
                 Seq2 : TypeLists(PlainTypes, MaxLen2),
                 N : Indices(MaxLen + MaxLen2)]
    /\ compiler \in Compilers
    /\ pc = "start"
    /\ result = NotInstantiated

Inst_cat ==
    /\ pc = "start"
    /\ result' = cat(args.Seq1, args.Seq2)
    /\ pc' = "cat"
    /\ UNCHANGED <<args, compiler>>

\* size< cat<Seq1, Seq2> >
Inst_size_cat ==
    /\ pc = "cat"
    /\ result.ok
    /\ result' = size(result.v)
    /\ pc' = "cat;size"
    /\ UNCHANGED <<args, compiler>>

\* Nth_type< cat<Seq1, Seq2>, N >
Inst_Nth_type_cat ==
    /\ pc = "cat"
    /\ result.ok
    /\ result' = Nth_type(result.v, args.N)
    /\ pc' = "cat;Nth_type"
    /\ UNCHANGED <<args, compiler>>

NextCat == Inst_cat \/ Inst_size_cat \/ Inst_Nth_type_cat

SpecCat == InitCat /\ [][NextCat]_vars

(***************************************************************************)
(* SpecSame: is_same over a type list and an argument pack of types in     *)
(* every form.                                                             *)
(***************************************************************************)
InitSame ==
    /\ args \in [List : TypeLists(QualifiedTypes, MaxArgs),
                 Args : SeqsUpTo(QualifiedTypes, MaxArgs)]
    /\ compiler \in Compilers
    /\ pc = "start"
    /\ result = NotInstantiated

Inst_is_same ==
    /\ pc = "start"
    /\ result' = is_same(args.List, args.Args)
    /\ pc' = "is_same"
    /\ UNCHANGED <<args, compiler>>

NextSame == Inst_is_same

SpecSame == InitSame /\ [][NextSame]_vars

(***************************************************************************)
(* SpecMap: map over a list of (key, value) pairs, a key and a default.    *)
(***************************************************************************)
InitMap ==
    /\ args \in [Map : [tag : Tags, ts : SeqsUpTo(Pairs, MaxMap)],
                 Key : PlainTypes, Default : PlainTypes]
    /\ compiler \in Compilers
    /\ pc = "start"
    /\ result = NotInstantiated

Inst_map ==
    /\ pc = "start"
    /\ result' = map(args.Map, args.Key, args.Default)
    /\ pc' = "map"
    /\ UNCHANGED <<args, compiler>>

NextMap == Inst_map

SpecMap == InitMap /\ [][NextMap]_vars

(***************************************************************************)
(* SpecApply: apply_map over a map, a list of keys and a default.          *)
(***************************************************************************)
InitApply ==
    /\ args \in [Map : [tag : Tags, ts : SeqsUpTo(Pairs, MaxMap)],
                 Keys : TypeLists(PlainTypes, MaxKeys),
                 Default : PlainTypes]
    /\ compiler \in Compilers
    /\ pc = "start"
    /\ result = NotInstantiated

Inst_apply_map ==
    /\ pc = "start"
    /\ result' = apply_map(args.Map, args.Keys, args.Default)
    /\ pc' = "apply_map"
    /\ UNCHANGED <<args, compiler>>

NextApply == Inst_apply_map

SpecApply == InitApply /\ [][NextApply]_vars

(***************************************************************************)
(* SpecHas: has_any_type and has_all_types over two type lists.            *)
(***************************************************************************)
InitHas ==
    /\ args \in [Seq1 : TypeLists(PlainTypes, MaxLen),
                 Seq2 : TypeLists(PlainTypes, MaxLen2)]
    /\ compiler \in Compilers
    /\ pc = "start"
    /\ result = NotInstantiated

Inst_has_any_type ==
    /\ pc = "start"
    /\ result' = has_any_type(args.Seq1, args.Seq2)
    /\ pc' = "has_any_type"
    /\ UNCHANGED <<args, compiler>>

Inst_has_all_types ==
    /\ pc = "start"
    /\ result' = has_all_types(args.Seq1, args.Seq2)
    /\ pc' = "has_all_types"
    /\ UNCHANGED <<args, compiler>>

NextHas == Inst_has_any_type \/ Inst_has_all_types

SpecHas == InitHas /\ [][NextHas]_vars

(***************************************************************************)
(* SpecFilter: the three filters over a list S of type lists, a criterion  *)
(* list Cs and a single criterion C.                                       *)
(***************************************************************************)
\* element types of the inner lists
FilterTypes == [n : {"int", "char"}, q : {"plain"}]

InnerLists == [tag : {"type_list"}, ts : SeqsUpTo(FilterTypes, MaxInner)]

InitFilter ==
    /\ args \in [S : [tag : Tags, ts : SeqsUpTo(InnerLists, MaxOuter)],
                 Cs : [tag : {"type_list2"}, ts : SeqsUpTo(FilterTypes, MaxInner)],
                 C : FilterTypes]
    /\ compiler \in Compilers
    /\ pc = "start"
    /\ result = NotInstantiated

Inst_filter_have_type ==
    /\ pc = "start"
    /\ result' = filter_have_type(args.S, args.C)
    /\ pc' = "filter_have_type"
    /\ UNCHANGED <<args, compiler>>

Inst_filter_have_all_types ==
    /\ pc = "start"
    /\ result' = filter_have_all_types(args.S, args.Cs)
    /\ pc' = "filter_have_all_types"
    /\ UNCHANGED <<args, compiler>>

Inst_filter_have_any_type ==
    /\ pc = "start"
    /\ result' = filter_have_any_type(args.S, args.Cs)
    /\ pc' = "filter_have_any_type"
    /\ UNCHANGED <<args, compiler>>

NextFilter ==
    \/ Inst_filter_have_type
    \/ Inst_filter_have_all_types
    \/ Inst_filter_have_any_type

SpecFilter == InitFilter /\ [][NextFilter]_vars

(***************************************************************************)
(* SpecValue: value_to_type of a value list V, then type_to_value of the   *)
(* list of integral constants it yields.                                   *)
(***************************************************************************)
\* the size_t values used: zero, a small one, one above the lowest limb and
\* the largest
Values == {ToSizeT(0), ToSizeT(2), AddOne(ToSizeT(LimbBase - 1)), size_t_max}

InitValue ==
    /\ args \in [V : [tag : ValueTags, vs : SeqsUpTo(Values, MaxValues)]]
    /\ compiler \in Compilers
    /\ pc = "start"
    /\ result = NotInstantiated

Inst_value_to_type ==
    /\ pc = "start"
    /\ result' = value_to_type(args.V)
    /\ pc' = "value_to_type"
    /\ UNCHANGED <<args, compiler>>

\* type_to_value< value_to_type< V > >
Inst_type_to_value_value_to_type ==
    /\ pc = "value_to_type"
    /\ result' = IF result.ok THEN type_to_value(result.v) ELSE Failure
    /\ pc' = "value_to_type;type_to_value"
    /\ UNCHANGED <<args, compiler>>

NextValue ==
    \/ Inst_value_to_type
    \/ Inst_type_to_value_value_to_type

SpecValue == InitValue /\ [][NextValue]_vars

(***************************************************************************)
(* SpecFor: static_for<T, Begin, End>(f), one step per invocation of f.    *)
(* Func is the set of indices at which f exits by an exception; at every   *)
(* other index it returns.  result.v is the sequence of indices f has been *)
(* invoked with.                                                           *)
(***************************************************************************)
Begins == {T_min, -2, 0, T_max - MaxSpan}

Ends(Begin) ==
    {e \in T_min .. T_max : -1 <= e - Begin /\ e - Begin <= MaxSpan} \cup {T_max}

InitFor ==
    /\ \E Begin \in Begins :
       \E End \in Ends(Begin) :
       \E Func \in SUBSET (Begin .. Begin + MaxSpan - 1) :
            args = [Begin |-> Begin, End |-> End, Func |-> Func]
    /\ compiler \in Compilers
    /\ pc = "start"
    /\ result = NotInstantiated

\* static_for<T, Begin, End>(f): End - Begin becomes the template argument
\* T N of make_integer_sequence
Inst_static_for ==
    /\ pc = "start"
    /\ LET N == args.End - args.Begin
           seq == IF Representable(N) THEN make_integer_sequence(N) ELSE Failure
       IN  IF seq.ok
           THEN result' = Resolved(<<>>) /\ pc' = "static_for_impl"
           ELSE result' = Failure /\ pc' = "static_for"
    /\ UNCHANGED <<args, compiler>>

\* the next operand of the comma fold is evaluated
static_for_impl_call ==
    /\ pc = "static_for_impl"
    /\ Len(result.v) < args.End - args.Begin
    /\ LET Is == make_integer_sequence(args.End - args.Begin).v
           i == fold_operand(args.Begin, Is, Len(result.v) + 1)
       IN  /\ result' = Resolved(Append(result.v, i))
           /\ pc' = IF i \in args.Func THEN "thrown" ELSE "static_for_impl"
    /\ UNCHANGED <<args, compiler>>

\* the fold has no operand left
static_for_impl_return ==
    /\ pc = "static_for_impl"
    /\ Len(result.v) = args.End - args.Begin
    /\ pc' = "returned"
    /\ UNCHANGED <<args, compiler, result>>

NextFor ==
    \/ Inst_static_for
    \/ static_for_impl_call
    \/ static_for_impl_return

SpecFor == InitFor /\ [][NextFor]_vars

(***************************************************************************)
(* Properties.                                                             *)
(***************************************************************************)
\* T occurs at no position of the pack ts
Absent(ts, T) == \A i \in 1 .. Len(ts) : ts[i] # T

\* the elements of ts that differ from T, in their order
Without(ts, T) == SelectSeq(ts, LAMBDA x : x # T)

\* C1: for every type list (of any length) and every type T that does not
\* occur in it, index_of resolves to the not-found sentinel, the maximum of
\* size_t, and never to a valid position of the list.
C1_index_of_absent_is_sentinel ==
    (pc = "index_of" /\ Absent(args.List.ts, args.T))
        => (result.ok /\ result.v = size_t_max)

\* C2: map is total: for every map, the empty one included, and every Key
\* that is the key of no pair, map<Map, Key, Default> resolves to Default.
C2_map_absent_key_is_default ==
    (pc = "map"
        /\ \A i \in 1 .. Len(args.Map.ts) : args.Map.ts[i].ts[1] # args.Key)
        => (result.ok /\ result.v = args.Default)

\* C3: for all type lists A and B, empty ones included, cat<A, B> resolves
\* to a list and size<cat<A, B>> is size<A> + size<B>.
C3_size_of_cat_is_sum ==
    /\ pc = "cat" => result.ok
    /\ pc = "cat;size"
        => result.v = ToSizeT(Len(args.Seq1.ts) + Len(args.Seq2.ts))

\* C4: for all type lists A and B and every position i below
\* size<A> + size<B>, cat<A, B> has the tag of A whatever the tag of B is,
\* and its element at i is that of A at i when i is below size<A> and that
\* of B at i - size<A> otherwise.
C4_cat_is_A_then_B_in_A_shape ==
    /\ (pc = "cat" /\ Len(args.Seq1.ts) + Len(args.Seq2.ts) > 0)
        => (result.ok /\ result.v.tag = args.Seq1.tag)
    /\ (pc = "cat;Nth_type"
            /\ BelowNat(args.N, Len(args.Seq1.ts) + Len(args.Seq2.ts)))
        => (result.ok
            /\ result.v = IF BelowNat(args.N, Len(args.Seq1.ts))
                          THEN args.Seq1.ts[args.N[1] + 1]
                          ELSE args.Seq2.ts[args.N[1] - Len(args.Seq1.ts) + 1])

\* C5: is_same is a total boolean function: when the number of elements of
\* the list differs from the number of arguments it yields false and does
\* not fail.
C5_is_same_arity_mismatch_is_false ==
    (pc = "is_same" /\ Len(args.List.ts) # Len(args.Args))
        => (result.ok /\ result.v = FALSE)

\* the type left when a reference and a top-level const are stripped
StripConstRef(T) == IF T.q \in {"const", "ref"} THEN [T EXCEPT !.q = "plain"] ELSE T

\* C6 as stated: with as many elements as arguments, is_same is true if and
\* only if at every position the element and the argument are the same type
\* once top-level const / reference qualifiers are stripped.
C6_is_same_iff_equal_without_const_ref ==
    (pc = "is_same" /\ Len(args.List.ts) = Len(args.Args))
        => (result.ok
            /\ (result.v <=> \A i \in 1 .. Len(args.Args) :
                    StripConstRef(args.List.ts[i]) = StripConstRef(args.Args[i])))

\* a and b are the same type after decay: the same named type, both of them
\* an object type with or without const / reference, or both of them an
\* array of it or a pointer to it
SameDecayed(a, b) ==
    /\ a.n = b.n
    /\ (a.q \in {"array", "pointer"}) <=> (b.q \in {"array", "pointer"})

\* C6 amended: with as many elements as arguments, is_same is true if and
\* only if at every position the element and the argument are the same type
\* after std::decay (reference and top-level const stripped, an array taken
\* as a pointer to its element); the comparison is positional.
C6_is_same_iff_equal_after_decay ==
    (pc = "is_same" /\ Len(args.List.ts) = Len(args.Args))
        => (result.ok
            /\ (result.v <=> \A i \in 1 .. Len(args.Args) :
                    SameDecayed(args.List.ts[i], args.Args[i])))

\* an is_same that holds although the list and the arguments differ in
\* their qualifiers, and one that fails on a reordering of the same types
C6_witness ==
    /\ pc = "is_same"
    /\ Len(args.List.ts) = 2 /\ Len(args.Args) = 2
    /\ \/ result.ok /\ result.v
          /\ args.List.ts[1] # args.Args[1] /\ args.List.ts[2] # args.Args[2]
       \/ result.ok /\ ~result.v
          /\ args.List.ts[1] = args.Args[2] /\ args.List.ts[2] = args.Args[1]

\* C7: for every type list and every type T, index_of<erase_type<S, T>, T>
\* is the not-found sentinel, also when erase_type<S, T> is not empty.
C7_index_of_erased_is_sentinel ==
    pc = "erase_type;index_of" => (result.ok /\ result.v = size_t_max)

\* C8: erase_type<List, T> is the list, in the shape of List, of exactly the
\* elements of List that differ from T, in their original order, every
\* occurrence of T removed, and has_type<erase_type<List, T>, T> is false.
C8_erase_type_removes_every_occurrence ==
    /\ pc = "erase_type"
        => (result.ok
            /\ result.v = MkSeq(args.List.tag, Without(args.List.ts, args.T)))
    /\ pc = "erase_type;has_type" => (result.ok /\ result.v = FALSE)

\* T erased from a list that holds it twice, around two other types that
\* differ from each other
C8_witness ==
    /\ pc = "erase_type"
    /\ Len(args.List.ts) = 4
    /\ args.List.ts[1] = args.T /\ args.List.ts[3] = args.T
    /\ args.List.ts[2] # args.T /\ args.List.ts[4] # args.T
    /\ args.List.ts[2] # args.List.ts[4]
    /\ result.ok
    /\ result.v.ts = <<args.List.ts[2], args.List.ts[4]>>

\* C9: for every N below size<List>, erase_Nth<List, N> has size<List> - 1
\* elements, the element at i is that of List at i for i < N and at i + 1
\* for i >= N: exactly the element at N is removed, also when its type
\* occurs at other positions, also for N = 0 and N = size<List> - 1.
C9_erase_Nth_removes_position_N ==
    (pc = "erase_Nth" /\ BelowNat(args.N, Len(args.List.ts)))
        => (result.ok
            /\ result.v.tag = args.List.tag
            /\ Len(result.v.ts) = Len(args.List.ts) - 1
            /\ \A i \in 0 .. Len(args.List.ts) - 2 :
                  result.v.ts[i + 1] = IF i < args.N[1]
                                       THEN args.List.ts[i + 1]
                                       ELSE args.List.ts[i + 2])

\* the middle element erased from a list that holds its type at another
\* position too
C9_witness ==
    /\ pc = "erase_Nth"
    /\ Len(args.List.ts) = 3
    /\ args.N = ToSizeT(1)
    /\ args.List.ts[1] = args.List.ts[2]
    /\ result.ok
    /\ Len(result.v.ts) = 2

\* C10: out-of-range access always fails: Nth_type and erase_Nth with N not
\* below size<List>, and back of an empty list, end in a resolution failure.
C10_out_of_range_fails ==
    /\ (pc \in {"Nth_type", "erase_Nth"} /\ ~BelowNat(args.N, Len(args.List.ts)))
        => ~result.ok
    /\ (pc = "back" /\ args.List.ts = <<>>) => ~result.ok

\* Nth_type one past the end of a list of three
C10_witness ==
    /\ pc = "Nth_type"
    /\ Len(args.List.ts) = 3
    /\ args.N = ToSizeT(3)
    /\ ~result.ok

\* C11: for every type list and every type T that occurs in it,
\* index_of<List, T> is the smallest position at which List holds T (the
\* first occurrence when T occurs several times), and so is below
\* size<List>.
C11_index_of_present_is_first ==
    (pc = "index_of" /\ ~Absent(args.List.ts, args.T))
        => (result.ok
            /\ BelowNat(result.v, Len(args.List.ts))
            /\ args.List.ts[result.v[1] + 1] = args.T
            /\ \A j \in 1 .. result.v[1] : args.List.ts[j] # args.T)

\* index_of of a type that occurs twice, first at position 1
C11_witness ==
    /\ pc = "index_of"
    /\ Len(args.List.ts) = 4
    /\ args.List.ts[1] # args.T
    /\ args.List.ts[2] = args.T
    /\ args.List.ts[4] = args.T
    /\ result.ok
    /\ result.v = ToSizeT(1)

\* C12: for every map (keys need not be unique) and every Key that is the
\* key of at least one pair, map<Map, Key, Default> is the value of the
\* first pair, in list order, whose key is Key; later pairs with that key
\* and Default do not influence it.
C12_map_present_key_is_first_value ==
    (pc = "map"
        /\ \E i \in 1 .. Len(args.Map.ts) : args.Map.ts[i].ts[1] = args.Key)
        => (result.ok
            /\ \E i \in 1 .. Len(args.Map.ts) :
                  /\ args.Map.ts[i].ts[1] = args.Key
                  /\ \A j \in 1 .. i - 1 : args.Map.ts[j].ts[1] # args.Key
                  /\ result.v = args.Map.ts[i].ts[2])

\* a key held by the second and the third pair, with different values that
\* both differ from the default
C12_witness ==
    /\ pc = "map"
    /\ Len(args.Map.ts) = 3
    /\ args.Map.ts[1].ts[1] # args.Key
    /\ args.Map.ts[2].ts[1] = args.Key
    /\ args.Map.ts[3].ts[1] = args.Key
    /\ args.Map.ts[2].ts[2] # args.Map.ts[3].ts[2]
    /\ args.Map.ts[2].ts[2] # args.Default
    /\ result.ok
    /\ result.v = args.Map.ts[2].ts[2]

\* the value of the first pair of Map whose key is Key, Default when no pair
\* has that key
FirstValue(Map, Key, Default) ==
    LET at == {i \in 1 .. Len(Map.ts) : Map.ts[i].ts[1] = Key}
    IN  IF at = {} THEN Default
        ELSE Map.ts[CHOOSE i \in at : \A j \in at : i <= j].ts[2]

\* C13: for every map, key list and default, apply_map<Map, Keys, Default>
\* has exactly size<Keys> elements, the element at each position being the
\* mapped value of the key at that position when the map holds it and
\* Default when it does not, in the order of Keys.
C13_apply_map_maps_each_key ==
    pc = "apply_map"
        => (result.ok
            /\ Len(result.v.ts) = Len(args.Keys.ts)
            /\ \A i \in 1 .. Len(args.Keys.ts) :
                  result.v.ts[i] = FirstValue(args.Map, args.Keys.ts[i], args.Default))

\* the types that occur in the pack ts
TypesOf(ts) == {ts[i] : i \in 1 .. Len(ts)}

\* C16: has_all_types<A, B> is true if and only if every element of B
\* occurs at some position of A, whatever the order of A and B and the
\* duplicates in B; it is true when B is empty and false when A is empty
\* and B is not.
C16_has_all_types_iff_every_element_occurs ==
    pc = "has_all_types"
        => (result.ok
            /\ (result.v <=> TypesOf(args.Seq2.ts) \subseteq TypesOf(args.Seq1.ts))
            /\ (args.Seq2.ts = <<>> => result.v)
            /\ (args.Seq1.ts = <<>> /\ args.Seq2.ts # <<>> => ~result.v))

\* two different types of B found in A in the opposite order
C16_witness ==
    /\ pc = "has_all_types"
    /\ Len(args.Seq2.ts) = 2
    /\ Len(args.Seq1.ts) = 3
    /\ args.Seq2.ts[1] # args.Seq2.ts[2]
    /\ args.Seq1.ts[1] = args.Seq2.ts[2]
    /\ args.Seq1.ts[3] = args.Seq2.ts[1]
    /\ result.ok
    /\ result.v

\* the inner lists of S that hold every type of the pack cs, in S's shape
\* and order
HavingAll(S, cs) ==
    MkSeq(S.tag, SelectSeq(S.ts, LAMBDA si : TypesOf(cs) \subseteq TypesOf(si.ts)))

\* the inner lists of S that hold some type of the pack cs, in S's shape
\* and order
HavingAny(S, cs) ==
    MkSeq(S.tag, SelectSeq(S.ts, LAMBDA si : TypesOf(cs) \cap TypesOf(si.ts) # {}))

\* C14: filter_have_all_types<S, Cs> is the sublist of S, in S's shape and
\* original order, of exactly the inner lists that have all types of Cs;
\* the empty list when none qualifies and all of S when Cs is empty.
C14_filter_have_all_types_keeps_qualifying ==
    pc = "filter_have_all_types"
        => (result.ok
            /\ result.v = HavingAll(args.S, args.Cs.ts)
            /\ (args.Cs.ts = <<>> => result.v = args.S))

\* two criteria, a first inner list that holds both and is kept and a
\* second one that holds only one of them and is dropped
C14_witness ==
    /\ pc = "filter_have_all_types"
    /\ Len(args.S.ts) = 2
    /\ Len(args.Cs.ts) = 2
    /\ args.Cs.ts[1] # args.Cs.ts[2]
    /\ TypesOf(args.Cs.ts) \subseteq TypesOf(args.S.ts[1].ts)
    /\ TypesOf(args.S.ts[2].ts) = {args.Cs.ts[1]}
    /\ result.ok
    /\ result.v.ts = <<args.S.ts[1]>>

\* C15: filter_have_any_type<S, Cs> is the sublist of S, in S's shape and
\* original order, of exactly the inner lists that have some type of Cs;
\* the empty list when none qualifies, in particular when Cs is empty.
C15_filter_have_any_type_keeps_qualifying ==
    pc = "filter_have_any_type"
        => (result.ok
            /\ result.v = HavingAny(args.S, args.Cs.ts)
            /\ (args.Cs.ts = <<>> => result.v.ts = <<>>))

\* two criteria, a first inner list that holds neither and is dropped and a
\* second one that holds only one of them and is kept
C15_witness ==
    /\ pc = "filter_have_any_type"
    /\ Len(args.S.ts) = 2
    /\ Len(args.Cs.ts) = 2
    /\ args.Cs.ts[1] # args.Cs.ts[2]
    /\ args.S.ts[1].ts = <<>>
    /\ TypesOf(args.S.ts[2].ts) = {args.Cs.ts[2]}
    /\ result.ok
    /\ result.v.ts = <<args.S.ts[2]>>

\* C19: on a single criterion the three filters agree: filter_have_type<S,
\* C>, filter_have_any_type<S, {C}> and filter_have_all_types<S, {C}> are
\* the same list, the inner lists of S that contain C, in S's shape and
\* original order.
C19_filters_agree_on_single_criterion ==
    /\ pc = "filter_have_type"
        => (result.ok /\ result.v = HavingAny(args.S, <<args.C>>))
    /\ (pc \in {"filter_have_any_type", "filter_have_all_types"}
            /\ args.Cs.ts = <<args.C>>)
        => (result.ok /\ result.v = HavingAny(args.S, <<args.C>>))

\* filter_have_type keeps two different inner lists that both hold C
C19_witness ==
    /\ pc = "filter_have_type"
    /\ Len(args.S.ts) = 2
    /\ args.S.ts[1] # args.S.ts[2]
    /\ args.C \in TypesOf(args.S.ts[1].ts)
    /\ args.C \in TypesOf(args.S.ts[2].ts)
    /\ result.ok
    /\ result.v = args.S

\* C17 as stated: for every value sequence V, including the empty one,
\* type_to_value(value_to_type(V)) is V itself.
C17_round_trip_is_V ==
    pc = "value_to_type;type_to_value" => (result.ok /\ result.v = args.V)

\* C17: value_to_type wraps the integer at each position of V into an
\* integral constant at the same position, and type_to_value of that list
\* is the value_list of V's values, same length, order and values; it is V
\* itself when V is a value_list.
C17_round_trip_is_value_list_of_V ==
    /\ pc = "value_to_type"
        => (/\ result.ok
            /\ Len(result.v.ts) = Len(args.V.vs)
            /\ \A i \in 1 .. Len(args.V.vs) : result.v.ts[i].value = args.V.vs[i])
    /\ pc = "value_to_type;type_to_value"
        => (/\ result.ok
            /\ result.v = MkValues("value_list", args.V.vs)
            /\ (args.V.tag = "value_list" => result.v = args.V))

\* the round trip of a list of another template with three different
\* values, the largest size_t first: the values come back, the template
\* does not
C17_witness ==
    /\ pc = "value_to_type;type_to_value"
    /\ args.V.tag = "value_list2"
    /\ Len(args.V.vs) = 3
    /\ args.V.vs[1] = size_t_max
    /\ Cardinality({args.V.vs[i] : i \in 1 .. 3}) = 3
    /\ result.ok
    /\ result.v.vs = args.V.vs
    /\ result.v # args.V

\* the indices of [Begin, End) in ascending order
IndexRange(Begin, End) == [k \in 1 .. (End - Begin) |-> Begin + k - 1]

====
